---- MODULE Spec2Model ----
(***************************************************************************)
(* Speedport exporter: the session (login, heartbeat, keepalive loop) of   *)
(* speedport/client.py, the collectors of speedport/collectors.py and the  *)
(* scrape handler and startup of main.py.                                  *)
(*                                                                         *)
(* Every await of the code is a point where the asyncio event loop may run *)
(* another coroutine, so every action below is the code between two awaits *)
(* of one coroutine.  The device's answers are inputs, drawn from the sets *)
(* of responses defined below.                                             *)
(***************************************************************************)
EXTENDS Integers, Sequences, FiniteSets, TLC

(***************************************************************************)
(* Bounds of the model.                                                    *)
(***************************************************************************)
\* scrape requests that can be in flight at the same time
MaxPasses == 2
\* longest list of {varid, varvalue} items handed to parse_typed_dict
MaxLen == 3

(***************************************************************************)
(* Values.                                                                 *)
(***************************************************************************)
\* a gauge or info metric that was never set is not exported
Unset == "unset"
\* a key the document does not hold (KeyError), or a value float() rejects
Missing == "missing"
\* the values the device reports for a field
Values == {"1", "2"}

\* a 64 character challenge: its first 16 characters and the 48 that follow
Challenges ==
  { [head |-> "a", tail |-> "x"], [head |-> "b", tail |-> "x"] }
NoChallenge == [head |-> "", tail |-> ""]

\* a password: its first 16 characters and the characters that follow
\* settings._password
Password == [head |-> "secret", tail |-> ""]

\* the challenges and passwords the derivations are compared on: challenges
\* that differ in their first 16 characters or only after them, a short
\* password and two long ones that differ only after their first 16
\* characters
KeyChallenges == [head : {"a", "b"}, tail : {"x", "y"}]
Passwords ==
  { Password,
    [head |-> "0123456789abcdef", tail |-> ""],
    [head |-> "0123456789abcdef", tail |-> "g"] }
LoginInputs == [challenge : KeyChallenges, password : Passwords]

(***************************************************************************)
(* Pure functions of client.py.                                            *)
(***************************************************************************)
\* hashlib.sha256(x).hexdigest(): a collision-free digest of x
Sha256Hex(x) == [alg |-> "sha256", of |-> x]

\* hashlib.pbkdf2_hmac('sha1', key, salt, 1000, 16).hex()
Pbkdf2Hex(key, salt) ==
  [alg |-> "pbkdf2_hmac_sha1", key |-> key, salt |-> salt, iterations |-> 1000, dklen |-> 16]

\* the password is hashed without the challenge
encrypted_password_without_challenge(challenge, password) ==
  Sha256Hex(<<":", password.head, password.tail>>)

\* '{}:{}'.format(challenge, password), hashed
encrypted_password(challenge, password) ==
  Sha256Hex(<<challenge.head, challenge.tail, ":", password.head, password.tail>>)

\* the salt is challenge[0:16]
derived_key(challenge, password) ==
  Pbkdf2Hex(Sha256Hex(<<password.head, password.tail>>), challenge.head)

\* main.py, SpeedportClient.login: the salt is self._password[0:16]
derivedk(challenge, password) ==
  Pbkdf2Hex(Sha256Hex(<<password.head, password.tail>>), password.head)

\* a mapping that keeps only the last item of the list
parse_typed_dict_last_item(data) ==
  [k \in (IF data = <<>> THEN {} ELSE {data[Len(data)].varid}) |-> data[Len(data)].varvalue]

\* {item['varid']: item['varvalue'] for item in data}: a later item with the
\* same varid replaces the earlier one
parse_typed_dict(data) ==
  [k \in {data[i].varid : i \in DOMAIN data} |->
     data[CHOOSE i \in DOMAIN data :
            /\ data[i].varid = k
            /\ \A j \in DOMAIN data : data[j].varid = k => j <= i].varvalue]

(***************************************************************************)
(* What the device can answer.                                             *)
(***************************************************************************)
\* an HTTP exchange ends with a status, or aiohttp raises a transport error
Statuses == {"200", "500", "transport_error"}

Item(id, value) == [varid |-> id, varvalue |-> value]

\* GET /html/login/index.html: the status and what
\* re.search(r'[0-9a-zA-Z]{64}', body) finds in the body
PageResponses ==
  [status : Statuses, match : {<<>>} \cup {<<c>> : c \in Challenges}]

\* a body: whether dirtyjson decodes it, and the items of the decoded list
Body(items) == [json |-> TRUE, items |-> items]
Undecodable == [json |-> FALSE, items |-> <<>>]

\* POST /data/Login.json
LoginBodies ==
  { Body(<<Item("login", "success")>>),
    Body(<<Item("login", "failed")>>),
    Body(<<Item("login", "failed"), Item("login", "success")>>),
    Body(<<>>),
    Undecodable }
LoginResponses == [status : Statuses, body : LoginBodies]

\* GET /data/heartbeat.json
HeartbeatBodies ==
  { Body(<<Item("loginstate", "1")>>),
    Body(<<Item("loginstate", "0")>>),
    Body(<<Item("loginstate", "")>>),
    Body(<<Item("other", "1")>>),
    Body(<<>>),
    Undecodable }
HeartbeatResponses == [status : Statuses, body : HeartbeatBodies]

(***************************************************************************)
(* The steps of Client.login and Client.heartbeat as functions of the      *)
(* device's answer.                                                        *)
(***************************************************************************)
\* login without the assertion on the status of the login page
LoginPageResult_no_status_check(resp) ==
  IF resp.match = <<>> THEN [ok |-> FALSE, challenge |-> NoChallenge]
  ELSE [ok |-> TRUE, challenge |-> resp.match[1]]

\* login, up to the POST: the status assertion, then the challenge, which
\* stays unbound (UnboundLocalError at its first use) when nothing matches
LoginPageResult(resp) ==
  IF resp.status # "200" THEN [ok |-> FALSE, challenge |-> NoChallenge]
  ELSE IF resp.match = <<>> THEN [ok |-> FALSE, challenge |-> NoChallenge]
  ELSE [ok |-> TRUE, challenge |-> resp.match[1]]

\* login, the answer to the POST: no status assertion here; json.loads,
\* parse_typed_dict, then assert data['login'] == 'success'
LoginPostResult(resp) ==
  IF resp.status = "transport_error" THEN FALSE
  ELSE IF ~resp.body.json THEN FALSE
  ELSE LET data == parse_typed_dict(resp.body.items)
       IN  IF "login" \notin DOMAIN data THEN FALSE
           ELSE data["login"] = "success"

\* SimpleCookie with challengev and derivedk
LoginCookies(challenge, password) ==
  [k \in {"challengev", "derivedk"} |->
     IF k = "challengev" THEN challenge ELSE derived_key(challenge, password)]

\* main.py, SpeedportClient.login: SimpleCookie with challengev and derivedk
SpeedportClient_cookies(challenge, password) ==
  [k \in {"challengev", "derivedk"} |->
     IF k = "challengev" THEN challenge ELSE derivedk(challenge, password)]

\* what a login() of client.py computes from a challenge and a password
Client_login(in) ==
  [encrypted_password |-> encrypted_password(in.challenge, in.password),
   derived_key |-> derived_key(in.challenge, in.password),
   cookies |-> LoginCookies(in.challenge, in.password)]

\* what a login() of main.py computes from a challenge and a password
SpeedportClient_login(in) ==
  [encrypted_password |-> encrypted_password(in.challenge, in.password),
   derived_key |-> derivedk(in.challenge, in.password),
   cookies |-> SpeedportClient_cookies(in.challenge, in.password)]

\* cookie_jar.update_cookies(cookies)
update_cookies(jar, cookies) ==
  [k \in DOMAIN jar \cup DOMAIN cookies |->
     IF k \in DOMAIN cookies THEN cookies[k] ELSE jar[k]]

\* the cookies are installed before the login answer is asserted
CookiesAfterLogin_installs_early(jar, challenge, password, accepted) ==
  update_cookies(jar, LoginCookies(challenge, password))

\* the jar after the POST was answered: the assertion on the login field
\* comes before the cookies are built and installed
CookiesAfterLogin(jar, challenge, password, accepted) ==
  IF accepted THEN update_cookies(jar, LoginCookies(challenge, password)) ELSE jar

\* heartbeat() clears the jar when the device reports not-logged-in
CookiesAfterHeartbeat_clears_when_logged_out(jar, hb) ==
  IF hb = "false" THEN [k \in {} |-> NoChallenge] ELSE jar

\* heartbeat() has no statement on the cookie jar: the jar after it is the
\* jar before it, whatever it returns
CookiesAfterHeartbeat(jar, hb) == jar

\* heartbeat: "true", "false", or "error" when it raises
HeartbeatResult(resp) ==
  IF resp.status # "200" THEN "error"
  ELSE IF ~resp.body.json THEN "error"
  ELSE LET data == parse_typed_dict(resp.body.items)
       IN  IF "loginstate" \notin DOMAIN data THEN "error"
           ELSE IF data["loginstate"] = "1" THEN "true" ELSE "false"

(***************************************************************************)
(* The collectors: the registered collectors, their labels and endpoints,  *)
(* and their _process_data as the writes it makes, in the code's order.    *)
(***************************************************************************)
\* async_collectors, in the order they are appended
async_collectors == <<"lte", "module">>
Collectors == {async_collectors[i] : i \in DOMAIN async_collectors}

\* the collector classes of speedport/collectors.py
CollectorClasses ==
  {"dsl", "lte", "interface", "module", "bonding_tunnel", "pppoe", "cpu_memory",
   "bonding_tr181"}

\* METRICS_SUBSYSTEM of each class; CPUMemoryCollector sets none and has
\* the '' of BaseCollector
METRICS_SUBSYSTEM(c) ==
  CASE c = "lte" -> "lte" [] c = "module" -> "module"
    [] c = "dsl" -> "dsl"
    [] c = "interface" -> "interface"
    [] c = "bonding_tunnel" -> "bonding"
    [] c = "pppoe" -> "pppoe"
    [] c = "cpu_memory" -> ""
    [] c = "bonding_tr181" -> "bonding"
\* ENDPOINT is the subsystem when the class sets none
ENDPOINT(c) ==
  CASE c = "lte" -> "lteinfo" [] c = "module" -> METRICS_SUBSYSTEM(c)
    [] c = "dsl" -> METRICS_SUBSYSTEM(c)
    [] c = "interface" -> "interfaces"
    [] c = "bonding_tunnel" -> "bonding_tunnel"
    [] c = "pppoe" -> "session"
    [] c = "cpu_memory" -> "memory"
    [] c = "bonding_tr181" -> "bonding_tr181"

\* the metrics each collector owns
LteMetrics == <<"lte_device", "lte_connection", "lte_rsrp", "lte_rsrq">>
ModuleMetrics == <<"module">>
MetricsOf(c) ==
  CASE c = "lte" -> {LteMetrics[i] : i \in DOMAIN LteMetrics}
    [] c = "module" -> {ModuleMetrics[i] : i \in DOMAIN ModuleMetrics}
Metrics == UNION {MetricsOf(c) : c \in Collectors}

\* BaseCollector._collect_time: one gauge, labelled with the subsystem
_collect_time(c) ==
  CASE c = "lte" -> "collect_time_lte" [] c = "module" -> "collect_time_module"
    [] c = "dsl" -> "collect_time_dsl"
    [] c = "interface" -> "collect_time_interface"
    [] c = "bonding_tunnel" -> "collect_time_bonding"
    [] c = "pppoe" -> "collect_time_pppoe"
    [] c = "cpu_memory" -> "collect_time_"
    [] c = "bonding_tr181" -> "collect_time_bonding"

\* everything the registry exports
Registry == Metrics \cup {_collect_time(c) : c \in Collectors}

\* Gauge.set_to_current_time(): the clock has moved on since the gauge was
\* set the last time, so the new value differs from the one it held
set_to_current_time(old) == IF old = "t1" THEN "t2" ELSE "t1"

\* lteinfo.json: the keys of the device info dict (imei, imsi, device_status,
\* card_status, antenna_mode) and of the connection info dict (phycellid,
\* cellid, tac, service_status, eps) are each taken as one field, which is
\* Missing when one of its keys is; rsrp and rsrq are Missing when the key is
\* absent or float() rejects the value.  _process_data reads the fields in
\* this order and stops at the first one it misses, so the documents are
\* taken to miss every field after the first missing one
LteFields == <<"device", "connection", "rsrp", "rsrq">>
LteDocs ==
  { d \in [device : Values \cup {Missing}, connection : Values \cup {Missing},
           rsrp : Values \cup {Missing}, rsrq : Values \cup {Missing}] :
      \A i, j \in DOMAIN LteFields :
         (i < j /\ d[LteFields[i]] = Missing) => d[LteFields[j]] = Missing }

\* module.json: the whole document is the info; it is Missing when the
\* decoded body is no mapping (info() needs its keys)
ModuleDocs == [info : Values \cup {Missing}]

Docs(c) == CASE c = "lte" -> LteDocs [] c = "module" -> ModuleDocs

\* one complete document and one that _process_data cannot finish
SampleDocs(c) ==
  CASE c = "lte" -> { [device |-> "1", connection |-> "1", rsrp |-> "1", rsrq |-> "1"],
                      [device |-> "1", connection |-> "1", rsrp |-> "1", rsrq |-> Missing] }
    [] c = "module" -> { [info |-> "1"], [info |-> Missing] }

\* complete documents that carry one value in all their fields, so that two
\* documents of a subsystem share no value
TaggedDocs(c) ==
  CASE c = "lte" -> { [device |-> v, connection |-> v, rsrp |-> v, rsrq |-> v] : v \in Values }
    [] c = "module" -> { [info |-> v] : v \in Values }

\* GET /data/<endpoint>.json: the status, whether dirtyjson decodes the
\* body, and the decoded document
NoDoc(c) == CHOOSE d \in Docs(c) : TRUE
FailedResponses(c) ==
  [status : {"200"}, json : {FALSE}, doc : {NoDoc(c)}]
    \cup [status : Statuses \ {"200"}, json : {FALSE}, doc : {NoDoc(c)}]
FetchResponses(c) ==
  [status : {"200"}, json : {TRUE}, doc : Docs(c)] \cup FailedResponses(c)
SampleResponses(c) ==
  [status : {"200"}, json : {TRUE}, doc : SampleDocs(c)] \cup FailedResponses(c)


\* the answers with a tagged document: fetch and parse succeed
TaggedResponses(c) == [status : {"200"}, json : {TRUE}, doc : TaggedDocs(c)]

\* Client.fetch_data: assert resp.status == 200, then json.loads(raw)
fetch_data(resp) ==
  IF resp.status # "200" THEN [ok |-> FALSE, doc |-> resp.doc]
  ELSE IF ~resp.json THEN [ok |-> FALSE, doc |-> resp.doc]
  ELSE [ok |-> TRUE, doc |-> resp.doc]

\* one metric write: metric.set(value) or metric.info(value)
Write(m, v) == [metric |-> m, value |-> v]

\* the writes of a _process_data run in order; the first one whose value is
\* Missing raises, and the writes before it stay in the registry
RECURSIVE ApplyWrites(_, _)
ApplyWrites(registry, writes) ==
  IF writes = <<>> THEN [sink |-> registry, raised |-> FALSE]
  ELSE IF Head(writes).value = Missing THEN [sink |-> registry, raised |-> TRUE]
  ELSE ApplyWrites([registry EXCEPT ![Head(writes).metric] = Head(writes).value],
                   Tail(writes))

\* rsrq is set from the rsrp key
LteWrites_rsrq_from_rsrp(data) ==
  << Write("lte_device", data.device),
     Write("lte_connection", data.connection),
     Write("lte_rsrp", data.rsrp),
     Write("lte_rsrq", data.rsrp) >>

\* LteCollector._process_data
LteWrites(data) ==
  << Write("lte_device", data.device),
     Write("lte_connection", data.connection),
     Write("lte_rsrp", data.rsrp),
     Write("lte_rsrq", data.rsrq) >>

\* ModuleCollector._process_data
ModuleWrites(data) == << Write("module", data.info) >>

\* _process_data returns after its first write
_process_data_returns_after_first_write(c, data, registry) ==
  CASE c = "lte" -> ApplyWrites(registry, SubSeq(LteWrites(data), 1, 1))
    [] c = "module" -> ApplyWrites(registry, SubSeq(ModuleWrites(data), 1, 1))

\* _process_data of the collector class: all its writes, in one call
_process_data(c, data, registry) ==
  CASE c = "lte" -> ApplyWrites(registry, LteWrites(data))
    [] c = "module" -> ApplyWrites(registry, ModuleWrites(data))

\* collect() without the try/except around its body
CollectRaises_no_except(result) == result # "ok"

\* BaseCollector.collect: "except Exception" swallows whatever fetch_data or
\* _process_data raised, so collect() itself never raises
CollectRaises(result) == FALSE

\* the timestamp is set in a finally clause, whatever the result
CollectTimeAfter_any_result(c, result, registry) ==
  [registry EXCEPT ![_collect_time(c)] = set_to_current_time(@)]

\* _collect_time...set_to_current_time() is the statement after
\* _process_data inside the try: it runs when neither fetch_data nor
\* _process_data raised
CollectTimeAfter(c, result, registry) ==
  IF result = "ok"
  THEN [registry EXCEPT ![_collect_time(c)] = set_to_current_time(@)]
  ELSE registry

\* BaseCollector.collect on the answer to its fetch: the result of the pass
\* for this collector and the registry it leaves
collect(c, resp, registry) ==
  LET f == fetch_data(resp)
  IN  IF ~f.ok
      THEN [result |-> "fetch_failed", sink |-> CollectTimeAfter(c, "fetch_failed", registry),
            raised |-> CollectRaises("fetch_failed")]
      ELSE LET p == _process_data(c, f.doc, registry)
               r == IF p.raised THEN "parse_failed" ELSE "ok"
           IN  [result |-> r, sink |-> CollectTimeAfter(c, r, p.sink), raised |-> CollectRaises(r)]

\* asyncio.gather instead of asyncio.wait: the first exception of a task is
\* raised in server_stats
WaitOutcome_gather(tasks) ==
  IF \E c \in Collectors : tasks[c].raised THEN "error" ELSE "served"

\* await asyncio.wait(wait) returns the done and pending sets and leaves the
\* tasks' exceptions in the tasks; server_stats_save then builds the response
WaitOutcome(tasks) == "served"

\* asyncio.wait with return_when=FIRST_COMPLETED
WaitReturns_first_completed(tasks) == \E c \in Collectors : tasks[c].pc = "done"

\* asyncio.wait returns when every task is done (ALL_COMPLETED, the default)
WaitReturns(tasks) == \A c \in Collectors : tasks[c].pc = "done"

(***************************************************************************)
(* The instruments of the exporter itself: FETCH_EXCEPTIONS of the client, *)
(* keyed by the file fetched, and _collect_duration, _collect_exceptions   *)
(* and _collect_time of BaseCollector, class attributes that every         *)
(* collector shares and keys by its METRICS_SUBSYSTEM.                     *)
(***************************************************************************)
\* most collect() calls started in a behaviour
MaxCollects == 3

Subsystems == {METRICS_SUBSYSTEM(c) : c \in CollectorClasses}
Files == {ENDPOINT(c) : c \in CollectorClasses}
CollectTimes == {_collect_time(c) : c \in CollectorClasses}

\* the answers to the GET of a collect(): the status, whether the body
\* decodes, and whether _process_data finds every key it reads
CollectResponses ==
  { r \in [status : Statuses, json : BOOLEAN, doc : {"complete", "incomplete"}] :
      /\ r.status # "200" => ~r.json
      /\ ~r.json => r.doc = "incomplete" }

\* _process_data raises on this document
ParseRaises(doc) == doc = "incomplete"

\* the result of collect() on the answer to its fetch
CollectResult(resp) ==
  IF ~fetch_data(resp).ok THEN "fetch_failed"
  ELSE IF ParseRaises(fetch_data(resp).doc) THEN "parse_failed"
  ELSE "ok"

\* the counter is entered around json.loads only
FETCH_EXCEPTIONS_after_decode_only(counter, file, resp) ==
  IF resp.status = "200" /\ ~resp.json THEN [counter EXCEPT ![file] = @ + 1] ELSE counter

\* FETCH_EXCEPTIONS.labels(file).count_exceptions() is the outermost block
\* of fetch_data: whatever is raised inside, by the GET, the assert on the
\* status or json.loads, counts once for that file
FETCH_EXCEPTIONS_after(counter, file, resp) ==
  IF ~fetch_data(resp).ok THEN [counter EXCEPT ![file] = @ + 1] ELSE counter

\* the duration is observed after set_to_current_time(), on success only
collect_duration_after_success_only(summary, c, result) ==
  IF result = "ok" THEN [summary EXCEPT ![METRICS_SUBSYSTEM(c)] = @ + 1] ELSE summary

\* _collect_duration.labels(METRICS_SUBSYSTEM).time(): the block observes
\* its duration when it is left, by return or by exception; the summary is
\* its number of observations
collect_duration_after(summary, c, result) ==
  [summary EXCEPT ![METRICS_SUBSYSTEM(c)] = @ + 1]

\* _collect_exceptions.labels(METRICS_SUBSYSTEM).count_exceptions() around
\* the fetch and the parse
collect_exceptions_after(counter, c, result) ==
  IF result # "ok" THEN [counter EXCEPT ![METRICS_SUBSYSTEM(c)] = @ + 1] ELSE counter

\* instruments nobody touched yet
NoInstruments ==
  [fetch_exceptions |-> [f \in Files |-> 0],
   collect_duration |-> [l \in Subsystems |-> 0],
   collect_exceptions |-> [l \in Subsystems |-> 0],
   collect_time |-> [g \in CollectTimes |-> Unset]]

\* the instruments after a collect() of class c got resp
InstrumentsAfter(c, resp, ins) ==
  [fetch_exceptions |-> FETCH_EXCEPTIONS_after(ins.fetch_exceptions, ENDPOINT(c), resp),
   collect_duration |-> collect_duration_after(ins.collect_duration, c, CollectResult(resp)),
   collect_exceptions |-> collect_exceptions_after(ins.collect_exceptions, c, CollectResult(resp)),
   collect_time |-> CollectTimeAfter(c, CollectResult(resp), ins.collect_time)]

\* no answer yet
NoResponse == [status |-> "none", json |-> FALSE, doc |-> "incomplete"]

\* the collect() calls of a class: how many wait for their fetch, how many
\* returned, and the answer and the result of the last one
NoCollect == [pending |-> 0, returned |-> 0, last |-> NoResponse, result |-> "none"]

RECURSIVE CollectsOf(_, _)
CollectsOf(calls, classes) ==
  IF classes = {} THEN 0
  ELSE LET c == CHOOSE c \in classes : TRUE
       IN  calls[c].pending + calls[c].returned + CollectsOf(calls, classes \ {c})

(***************************************************************************)
(* InterfaceCollector._process_data: the speed gauges of the entries of    *)
(* line_status.  A speed string is the sequence of its characters, with    *)
(* the literals of the two patterns taken as one character each.           *)
(***************************************************************************)
\* most entries of line_status in a document
MaxInterfaces == 2

IsDigit(ch) == ch \in {"0", "1", "2", "3", "4", "5", "6", "7", "8", "9"}
DigitValue(ch) ==
  CASE ch = "0" -> 0 [] ch = "1" -> 1 [] ch = "2" -> 2 [] ch = "3" -> 3 [] ch = "4" -> 4
    [] ch = "5" -> 5 [] ch = "6" -> 6 [] ch = "7" -> 7 [] ch = "8" -> 8 [] ch = "9" -> 9

\* int(digits), and float(digits) of Gauge.set for a string of digits
RECURSIVE int(_)
int(digits) ==
  IF digits = <<>> THEN 0
  ELSE 10 * int(SubSeq(digits, 1, Len(digits) - 1)) + DigitValue(digits[Len(digits)])

\* speed[i..k] is a run of digits
DigitRun(speed, i, k) == i <= k /\ k <= Len(speed) /\ \A j \in i..k : IsDigit(speed[j])

\* re.search(r'([0-9]+)Mbps', speed): the groups of the leftmost match, or
\* <<>> when there is none
re_search_Mbps(speed) ==
  LET matches == { m \in (1..Len(speed)) \X (1..Len(speed)) :
                     /\ DigitRun(speed, m[1], m[2])
                     /\ m[2] < Len(speed)
                     /\ speed[m[2] + 1] = "Mbps" }
  IN  IF matches = {} THEN <<>>
      ELSE LET m == CHOOSE m \in matches : \A n \in matches : m[1] <= n[1]
           IN  << SubSeq(speed, m[1], m[2]) >>

\* re.search(r'DownStream:([0-9]+)kbps UpStream:([0-9]+)kbps', speed)
re_search_DownUp(speed) ==
  LET matches == { m \in (1..Len(speed)) \X (1..Len(speed)) \X (1..Len(speed)) :
                     /\ speed[m[1]] = "DownStream:"
                     /\ DigitRun(speed, m[1] + 1, m[2])
                     /\ m[2] + 3 <= m[3]
                     /\ speed[m[2] + 1] = "kbps"
                     /\ speed[m[2] + 2] = " UpStream:"
                     /\ DigitRun(speed, m[2] + 3, m[3])
                     /\ m[3] < Len(speed)
                     /\ speed[m[3] + 1] = "kbps" }
  IN  IF matches = {} THEN <<>>
      ELSE LET m == CHOOSE m \in matches : \A n \in matches : m[1] <= n[1]
           IN  << SubSeq(speed, m[1] + 1, m[2]), SubSeq(speed, m[2] + 3, m[3]) >>

\* the speed is set as the device reports it, in Mbps
WlanSpeed_in_Mbps(digits) == int(digits)

\* speed = int(re_res.group(1)) * 1000
WlanSpeed(digits) == int(digits) * 1000

\* the speed strings of the documents
Speeds ==
  { <<"8", "6", "6", "Mbps">>,
    <<"1", "Gbps">>,
    <<"DownStream:", "5", "0", "0", "0", "0", "kbps", " UpStream:", "1", "0", "0", "0", "0", "kbps">>,
    <<"DownStream:", "5", "0", "kbps">>,
    <<>> }

\* an entry of line_status: media (Missing when interface, status or media
\* is no key of it), speed, and rest, which is Missing when a key read after
\* the speed (MTU, the packet and error counters, collisions) is absent
InterfaceEntries ==
  [media : {"WLAN", "DSL", "LAN", Missing}, speed : Speeds, rest : {"ok", Missing}]
InterfaceDocs == UNION {[1..n -> InterfaceEntries] : n \in 0..MaxInterfaces}

\* the rx and tx speed gauges of an interface that were never set: they
\* have no sample
NoSpeed == [set |-> FALSE, rx |-> 0, tx |-> 0]

\* the branch on interface['media'], on the speed gauges of one interface
SpeedGauges(entry, gauges) ==
  IF entry.media = "WLAN"
  THEN LET re_res == re_search_Mbps(entry.speed)
       IN  IF re_res # <<>>
           THEN [set |-> TRUE, rx |-> WlanSpeed(re_res[1]), tx |-> WlanSpeed(re_res[1])]
           ELSE gauges
  ELSE IF entry.media = "DSL"
  THEN LET re_res == re_search_DownUp(entry.speed)
       IN  IF re_res # <<>>
           THEN [set |-> TRUE, rx |-> int(re_res[1]), tx |-> int(re_res[2])]
           ELSE gauges
  ELSE [set |-> TRUE, rx |-> -1, tx |-> -1]

\* for interface in interfaces, from entry i on: a missing key raises and
\* ends the loop, and what was set before stays
RECURSIVE InterfaceLoop(_, _, _)
InterfaceLoop(entries, i, gauges) ==
  IF i > Len(entries) THEN [processed |-> TRUE, raised |-> FALSE, gauges |-> gauges]
  ELSE IF entries[i].media = Missing
  THEN [processed |-> TRUE, raised |-> TRUE, gauges |-> gauges]
  ELSE LET set == [gauges EXCEPT ![i] = SpeedGauges(entries[i], gauges[i])]
       IN  IF entries[i].rest = Missing
           THEN [processed |-> TRUE, raised |-> TRUE, gauges |-> set]
           ELSE InterfaceLoop(entries, i + 1, set)

(***************************************************************************)
(* State.                                                                  *)
(***************************************************************************)
VARIABLES
  mainPc,          \* main(): "start", "login", "starting", "running", "exited"
  loopPc,          \* login_loop: "off", "created", "heartbeat", "login", "sleep", "dead"
  loginPc,         \* login(): "idle", "page" (GET sent), "post" (POST sent)
  loginChallenge,  \* login()'s local challenge while the POST is in flight
  cookie_jar,      \* session.cookie_jar: cookie name -> value
  authenticated,   \* the last login succeeded and no heartbeat reported otherwise since
  iterHb,          \* what heartbeat() did in the current iteration of login_loop
  iterLogin,       \* what login() did in the current iteration of login_loop
  passes,          \* the server_stats calls in flight and their collector tasks
  sink,            \* the metric registry: metric -> published value
  data,            \* the list handed to parse_typed_dict / the heartbeat body
  folded,          \* what parse_typed_dict returned for data
  alive,           \* what heartbeat() returned for a body of data
  credentials,     \* two (challenge, password) inputs of login()
  derivations,     \* what login() computed for each of the two inputs
  interfaces,      \* the line_status list of an interfaces document
  interface_gauges, \* the speed gauges InterfaceCollector set for it
  instruments,     \* the exporter's own counters, summaries and timestamps
  collects         \* the collect() calls of each collector class

sessionVars == <<mainPc, loopPc, loginPc, loginChallenge, cookie_jar, authenticated,
                 iterHb, iterLogin>>
collectVars == <<passes, sink>>
interfaceVars == <<interfaces, interface_gauges>>
instrumentVars == <<instruments, collects>>
pureVars == <<data, folded, alive, credentials, derivations, interfaces, interface_gauges,
              instruments, collects>>
vars == <<mainPc, loopPc, loginPc, loginChallenge, cookie_jar, authenticated,
          iterHb, iterLogin, passes, sink, data, folded, alive, credentials, derivations,
          interfaces, interface_gauges, instruments, collects>>

PassIds == 1..MaxPasses

\* the cookie jar of a new aiohttp.ClientSession
EmptyJar == [k \in {} |-> NoChallenge]

\* the request is sent without the cookies of the jar
Fetching_without_cookies(cookies) ==
  [pc |-> "fetching", result |-> "none", raised |-> FALSE, cookies |-> EmptyJar]

\* a collector task whose GET is in flight: session.get() sends the cookies
\* the jar holds when the request is made
Fetching(cookies) ==
  [pc |-> "fetching", result |-> "none", raised |-> FALSE, cookies |-> cookies]
\* a collector task that has ended
Done(result, raised) == [pc |-> "done", result |-> result, raised |-> raised]
NoTasks == [c \in Collectors |-> Done("none", FALSE)]
\* a server_stats call: "idle" (none yet), "waiting" (in asyncio.wait),
\* "served" or "error" (answered); failed counts the collectors that had
\* failed when it was answered
IdlePass == [pc |-> "idle", tasks |-> NoTasks, failed |-> 0]

NotFolded == [k \in {"not folded"} |-> ""]

InitSession ==
  /\ mainPc = "start"
  /\ loopPc = "off"
  /\ loginPc = "idle"
  /\ loginChallenge = NoChallenge
  /\ cookie_jar = EmptyJar
  /\ authenticated = FALSE
  /\ iterHb = "none"
  /\ iterLogin = "none"

InitCollect ==
  /\ passes = [p \in PassIds |-> IdlePass]
  /\ sink = [m \in Registry |-> Unset]

\* no interfaces document was processed
NotProcessed == [processed |-> FALSE, raised |-> FALSE, gauges |-> <<>>]
NoInterfaces == interfaces = <<>> /\ interface_gauges = NotProcessed

\* no collect() was called
NoCollects ==
  /\ instruments = NoInstruments
  /\ collects = [c \in CollectorClasses |-> NoCollect]

\* no derivation was made
NotDerived == [variant |-> "none", out |-> <<>>]

InitPure ==
  /\ data = <<>>
  /\ folded = NotFolded
  /\ alive = "none"
  /\ credentials = <<>>
  /\ derivations = NotDerived
  /\ NoInterfaces
  /\ NoCollects

Init == InitSession /\ InitCollect /\ InitPure

\* the process runs until main() returns or raises
Running == mainPc # "exited"

(***************************************************************************)
(* main() and Client.login.                                                *)
(***************************************************************************)
\* main creates the login_loop task before its own login()
MainLogin_creates_loop_first ==
  /\ mainPc = "start"
  /\ mainPc' = "login"
  /\ loginPc' = "page"
  /\ loopPc' = "created"
  /\ UNCHANGED <<loginChallenge, cookie_jar, authenticated, iterHb, iterLogin>>
  /\ UNCHANGED collectVars /\ UNCHANGED pureVars

\* main: await client.login(); login sends the GET for the login page
MainLogin ==
  /\ mainPc = "start"
  /\ mainPc' = "login"
  /\ loginPc' = "page"
  /\ UNCHANGED <<loopPc, loginChallenge, cookie_jar, authenticated, iterHb, iterLogin>>
  /\ UNCHANGED collectVars /\ UNCHANGED pureVars

\* main() catches what its login() raised and goes on
LoginReturns_ignores_failure(ok) ==
  IF mainPc = "login"
  THEN /\ mainPc' = "starting"
       /\ loopPc' = "created"
       /\ UNCHANGED iterLogin
  ELSE /\ loopPc' = (IF ok THEN "sleep" ELSE "dead")
       /\ iterLogin' = (IF ok THEN "ok" ELSE "failed")
       /\ UNCHANGED mainPc

\* login() returns or raises: to main (start of the process) or to login_loop.
\* main goes on to create the login_loop task; an exception ends main, and an
\* exception in login_loop ends its task
LoginReturns(ok) ==
  IF mainPc = "login"
  THEN /\ mainPc' = (IF ok THEN "starting" ELSE "exited")
       /\ loopPc' = (IF ok THEN "created" ELSE loopPc)
       /\ UNCHANGED iterLogin
  ELSE /\ loopPc' = (IF ok THEN "sleep" ELSE "dead")
       /\ iterLogin' = (IF ok THEN "ok" ELSE "failed")
       /\ UNCHANGED mainPc

\* login: the login page is answered
LoginPage(resp) ==
  /\ Running
  /\ loginPc = "page"
  /\ LET r == LoginPageResult(resp)
     IN  IF r.ok
         THEN /\ loginPc' = "post"
              /\ loginChallenge' = r.challenge
              /\ UNCHANGED <<mainPc, loopPc, iterLogin>>
         ELSE /\ loginPc' = "idle"
              /\ loginChallenge' = NoChallenge
              /\ LoginReturns(FALSE)
  /\ UNCHANGED <<cookie_jar, authenticated, iterHb>>
  /\ UNCHANGED collectVars /\ UNCHANGED pureVars

\* login: the POST is answered
LoginPost(resp) ==
  /\ Running
  /\ loginPc = "post"
  /\ LET accepted == LoginPostResult(resp)
     IN  /\ cookie_jar' = CookiesAfterLogin(cookie_jar, loginChallenge, Password, accepted)
         /\ authenticated' = (IF accepted THEN TRUE ELSE authenticated)
         /\ LoginReturns(accepted)
  /\ loginPc' = "idle"
  /\ loginChallenge' = NoChallenge
  /\ UNCHANGED iterHb
  /\ UNCHANGED collectVars /\ UNCHANGED pureVars

\* main: aio.web.start_http_server, then await login_task
ServerStart ==
  /\ mainPc = "starting"
  /\ mainPc' = "running"
  /\ UNCHANGED <<loopPc, loginPc, loginChallenge, cookie_jar, authenticated, iterHb, iterLogin>>
  /\ UNCHANGED collectVars /\ UNCHANGED pureVars

\* main: await login_task raises what ended login_loop, and the process ends
MainExit ==
  /\ mainPc = "running"
  /\ loopPc = "dead"
  /\ mainPc' = "exited"
  /\ UNCHANGED <<loopPc, loginPc, loginChallenge, cookie_jar, authenticated, iterHb, iterLogin>>
  /\ UNCHANGED collectVars /\ UNCHANGED pureVars

(***************************************************************************)
(* Client.login_loop.                                                      *)
(***************************************************************************)
\* the top of the while loop: heartbeat() sends its GET
LoopHeartbeat ==
  /\ Running
  /\ loopPc \in {"created", "sleep"}
  /\ loopPc' = "heartbeat"
  /\ iterHb' = "none"
  /\ iterLogin' = "none"
  /\ UNCHANGED <<mainPc, loginPc, loginChallenge, cookie_jar, authenticated>>
  /\ UNCHANGED collectVars /\ UNCHANGED pureVars

\* a false heartbeat goes to the sleep without a login()
AfterHeartbeat_false_sleeps(hb) ==
  CASE hb = "error" -> "dead"
    [] hb = "false" -> "sleep"
    [] hb = "true" -> "sleep"

\* login() is called whatever heartbeat() returned
AfterHeartbeat_always_login(hb) ==
  CASE hb = "error" -> "dead"
    [] OTHER -> "login"

\* what login_loop does with heartbeat(): an exception leaves the loop, a
\* false calls login(), a true goes to sleep
AfterHeartbeat(hb) ==
  CASE hb = "error" -> "dead"
    [] hb = "false" -> "login"
    [] hb = "true" -> "sleep"

\* the heartbeat is answered
HeartbeatReturn(resp) ==
  /\ Running
  /\ loopPc = "heartbeat"
  /\ LET hb == HeartbeatResult(resp)
     IN  /\ iterHb' = hb
         /\ loopPc' = AfterHeartbeat(hb)
         /\ loginPc' = (IF AfterHeartbeat(hb) = "login" THEN "page" ELSE loginPc)
         /\ iterLogin' = (IF AfterHeartbeat(hb) = "login" THEN "called" ELSE iterLogin)
         /\ authenticated' = (IF hb = "false" THEN FALSE ELSE authenticated)
         /\ cookie_jar' = CookiesAfterHeartbeat(cookie_jar, hb)
  /\ UNCHANGED <<mainPc, loginChallenge>>
  /\ UNCHANGED collectVars /\ UNCHANGED pureVars

(***************************************************************************)
(* server_stats (the scrape handler) and BaseCollector.collect.            *)
(***************************************************************************)
\* the metrics endpoint is served before main() has logged in
ServerUp_before_login == mainPc \in {"login", "starting", "running"}

\* scrapes are answered once main() has started the HTTP server, which it
\* does after its login() has returned
ServerUp == mainPc = "running"

\* the slot a new server_stats call takes: the first one with no call in flight
FreeSlot(p) ==
  /\ passes[p].pc # "waiting"
  /\ \A q \in PassIds : q < p => passes[q].pc = "waiting"

\* a scrape request: server_stats creates one task per collector and waits;
\* each task runs collect() up to the GET of fetch_data, which goes out with
\* the cookies the jar holds now
Scrape(p) ==
  /\ Running
  /\ ServerUp
  /\ FreeSlot(p)
  /\ passes' = [passes EXCEPT ![p] =
                  [pc |-> "waiting", tasks |-> [c \in Collectors |-> Fetching(cookie_jar)],
                   failed |-> 0]]
  /\ UNCHANGED sink
  /\ UNCHANGED sessionVars /\ UNCHANGED pureVars

\* the GET of one collector is answered: the rest of collect() runs without
\* an await (fetch_data's assertion and decoding, _process_data, the
\* timestamp, the except clause)
FetchReturn(p, c, resp) ==
  /\ Running
  /\ passes[p].pc = "waiting"
  /\ passes[p].tasks[c].pc = "fetching"
  /\ LET r == collect(c, resp, sink)
     IN  /\ sink' = r.sink
         /\ passes' = [passes EXCEPT ![p].tasks[c] = Done(r.result, r.raised)]
  /\ UNCHANGED sessionVars /\ UNCHANGED pureVars

\* asyncio.wait returns and server_stats_save answers the scrape
PassReturn(p) ==
  /\ Running
  /\ passes[p].pc = "waiting"
  /\ WaitReturns(passes[p].tasks)
  /\ passes' = [passes EXCEPT ![p] =
                  [pc |-> WaitOutcome(passes[p].tasks), tasks |-> NoTasks,
                   failed |-> Cardinality({c \in Collectors :
                                             passes[p].tasks[c].result \notin {"none", "ok"}})]]
  /\ UNCHANGED sink
  /\ UNCHANGED sessionVars /\ UNCHANGED pureVars

Next ==
  \/ MainLogin
  \/ \E resp \in PageResponses : LoginPage(resp)
  \/ \E resp \in LoginResponses : LoginPost(resp)
  \/ ServerStart
  \/ MainExit
  \/ LoopHeartbeat
  \/ \E resp \in HeartbeatResponses : HeartbeatReturn(resp)
  \/ \E p \in PassIds : Scrape(p)
  \/ \E p \in PassIds, c \in Collectors : \E resp \in SampleResponses(c) : FetchReturn(p, c, resp)
  \/ \E p \in PassIds : PassReturn(p)

\* the whole process, from the start of main(); the device answers a fetch
\* with one of SampleResponses
Spec == Init /\ [][Next]_vars

(***************************************************************************)
(* The collection passes of a process that is up: main() has logged in and *)
(* started the server, login_loop sleeps.  The device answers a fetch with *)
(* any of FetchResponses.                                                  *)
(***************************************************************************)
InitUp ==
  /\ mainPc = "running"
  /\ loopPc = "sleep"
  /\ loginPc = "idle"
  /\ loginChallenge = NoChallenge
  /\ cookie_jar = update_cookies(EmptyJar, LoginCookies(CHOOSE ch \in Challenges : TRUE, Password))
  /\ authenticated = TRUE
  /\ iterHb = "true"
  /\ iterLogin = "none"
  /\ InitCollect /\ InitPure

NextCollect ==
  \/ \E p \in PassIds : Scrape(p)
  \/ \E p \in PassIds, c \in Collectors : \E resp \in FetchResponses(c) : FetchReturn(p, c, resp)
  \/ \E p \in PassIds : PassReturn(p)

SpecCollect == InitUp /\ [][NextCollect]_vars

\* the same, with one scrape request at a time: the next one arrives after
\* the one before was answered
NextPass ==
  \/ Scrape(1)
  \/ \E c \in Collectors : \E resp \in FetchResponses(c) : FetchReturn(1, c, resp)
  \/ PassReturn(1)

SpecPass == InitUp /\ [][NextPass]_vars

\* overlapping scrape requests whose fetches and parses all succeed, on
\* documents that can be told apart
NextOverlap ==
  \/ \E p \in PassIds : Scrape(p)
  \/ \E p \in PassIds, c \in Collectors : \E resp \in TaggedResponses(c) : FetchReturn(p, c, resp)
  \/ \E p \in PassIds : PassReturn(p)

SpecOverlap == InitUp /\ [][NextOverlap]_vars

(***************************************************************************)
(* The process with one scrape request at a time: the session of Spec with *)
(* every answer the device can give to login() and to the heartbeat, and    *)
(* the next scrape request arriving after the one before was answered.      *)
(***************************************************************************)
NextSeq ==
  \/ MainLogin
  \/ \E resp \in PageResponses : LoginPage(resp)
  \/ \E resp \in LoginResponses : LoginPost(resp)
  \/ ServerStart
  \/ MainExit
  \/ LoopHeartbeat
  \/ \E resp \in HeartbeatResponses : HeartbeatReturn(resp)
  \/ Scrape(1)
  \/ \E c \in Collectors : \E resp \in SampleResponses(c) : FetchReturn(1, c, resp)
  \/ PassReturn(1)

SpecSeq == Init /\ [][NextSeq]_vars

(***************************************************************************)
(* The process with a device that accepts every login: the login page is   *)
(* answered 200 with a challenge and Login.json with login = success.  The  *)
(* heartbeat and the fetches are answered as in Spec, and scrape requests   *)
(* arrive one at a time.  The event loop resumes a coroutine whose request  *)
(* was answered, and the requests of login() are answered: weak fairness of *)
(* main()'s login call and of the two steps of login().                     *)
(***************************************************************************)
AcceptedPages == {resp \in PageResponses : LoginPageResult(resp).ok}
AcceptedLogins == {resp \in LoginResponses : LoginPostResult(resp)}

NextLive ==
  \/ MainLogin
  \/ \E resp \in AcceptedPages : LoginPage(resp)
  \/ \E resp \in AcceptedLogins : LoginPost(resp)
  \/ ServerStart
  \/ MainExit
  \/ LoopHeartbeat
  \/ \E resp \in HeartbeatResponses : HeartbeatReturn(resp)
  \/ Scrape(1)
  \/ \E c \in Collectors : \E resp \in SampleResponses(c) : FetchReturn(1, c, resp)
  \/ PassReturn(1)

SpecLive ==
  /\ Init
  /\ [][NextLive]_vars
  /\ WF_vars(MainLogin)
  /\ WF_vars(\E resp \in AcceptedPages : LoginPage(resp))
  /\ WF_vars(\E resp \in AcceptedLogins : LoginPost(resp))

(***************************************************************************)
(* parse_typed_dict and heartbeat() on every list of up to MaxLen items.   *)
(***************************************************************************)
ItemIds == {"loginstate", "login", "other"}
ItemValues == {"0", "1"}
Items == {Item(id, v) : id \in ItemIds, v \in ItemValues}
Lists == UNION {[1..n -> Items] : n \in 0..MaxLen}

InitLists ==
  /\ InitSession /\ InitCollect
  /\ data \in Lists
  /\ folded = NotFolded
  /\ alive = "none"
  /\ credentials = <<>>
  /\ derivations = NotDerived
  /\ NoInterfaces
  /\ NoCollects

\* data = parse_typed_dict(parsed)
Fold ==
  /\ folded = NotFolded
  /\ folded' = parse_typed_dict(data)
  /\ UNCHANGED <<data, alive, credentials, derivations>> /\ UNCHANGED interfaceVars
  /\ UNCHANGED instrumentVars
  /\ UNCHANGED sessionVars /\ UNCHANGED collectVars

\* heartbeat() on a 200 answer whose body decodes to data
Heartbeat ==
  /\ alive = "none"
  /\ alive' = HeartbeatResult([status |-> "200", body |-> Body(data)])
  /\ UNCHANGED <<data, folded, credentials, derivations>> /\ UNCHANGED interfaceVars
  /\ UNCHANGED instrumentVars
  /\ UNCHANGED sessionVars /\ UNCHANGED collectVars

NextLists == Fold \/ Heartbeat

SpecLists == InitLists /\ [][NextLists]_vars

(***************************************************************************)
(* The derivations of login() on every two (challenge, password) inputs,   *)
(* as client.py makes them and as main.py makes them.                      *)
(***************************************************************************)
InitKeys ==
  /\ InitSession /\ InitCollect
  /\ data = <<>>
  /\ folded = NotFolded
  /\ alive = "none"
  /\ credentials \in LoginInputs \X LoginInputs
  /\ derivations = NotDerived
  /\ NoInterfaces
  /\ NoCollects

\* client.py, Client.login on both inputs
ClientDerive ==
  /\ derivations = NotDerived
  /\ derivations' = [variant |-> "client",
                     out |-> <<Client_login(credentials[1]), Client_login(credentials[2])>>]
  /\ UNCHANGED <<data, folded, alive, credentials>> /\ UNCHANGED interfaceVars
  /\ UNCHANGED instrumentVars
  /\ UNCHANGED sessionVars /\ UNCHANGED collectVars

\* main.py, SpeedportClient.login on both inputs
SpeedportClientDerive ==
  /\ derivations = NotDerived
  /\ derivations' = [variant |-> "main",
                     out |-> <<SpeedportClient_login(credentials[1]),
                               SpeedportClient_login(credentials[2])>>]
  /\ UNCHANGED <<data, folded, alive, credentials>> /\ UNCHANGED interfaceVars
  /\ UNCHANGED instrumentVars
  /\ UNCHANGED sessionVars /\ UNCHANGED collectVars

NextKeys == ClientDerive \/ SpeedportClientDerive

SpecKeys == InitKeys /\ [][NextKeys]_vars

(***************************************************************************)
(* InterfaceCollector._process_data on every interfaces document of up to  *)
(* MaxInterfaces entries, with gauges that were never set before.          *)
(***************************************************************************)
InitInterfaces ==
  /\ InitSession /\ InitCollect
  /\ data = <<>>
  /\ folded = NotFolded
  /\ alive = "none"
  /\ credentials = <<>>
  /\ derivations = NotDerived
  /\ interfaces \in InterfaceDocs
  /\ interface_gauges = NotProcessed
  /\ NoCollects

\* _process_data(data) with data['line_status'] = interfaces
ProcessInterfaces ==
  /\ ~interface_gauges.processed
  /\ interface_gauges' =
       InterfaceLoop(interfaces, 1, [i \in DOMAIN interfaces |-> NoSpeed])
  /\ UNCHANGED <<data, folded, alive, credentials, derivations, interfaces>>
  /\ UNCHANGED instrumentVars
  /\ UNCHANGED sessionVars /\ UNCHANGED collectVars

NextInterfaces == ProcessInterfaces

SpecInterfaces == InitInterfaces /\ [][NextInterfaces]_vars

(***************************************************************************)
(* collect() calls of the collector classes, in any number up to           *)
(* MaxCollects and in any overlap, on the instruments they share.          *)
(***************************************************************************)
InitInstruments ==
  /\ InitSession /\ InitCollect
  /\ data = <<>>
  /\ folded = NotFolded
  /\ alive = "none"
  /\ credentials = <<>>
  /\ derivations = NotDerived
  /\ NoInterfaces
  /\ NoCollects

\* collect() of a collector of class c enters its blocks and awaits
\* fetch_data(ENDPOINT)
CollectStart(c) ==
  /\ CollectsOf(collects, CollectorClasses) < MaxCollects
  /\ collects' = [collects EXCEPT ![c].pending = @ + 1]
  /\ UNCHANGED instruments
  /\ UNCHANGED <<data, folded, alive, credentials, derivations>>
  /\ UNCHANGED interfaceVars
  /\ UNCHANGED sessionVars /\ UNCHANGED collectVars

\* the fetch of a collect() of class c is answered with resp: the rest of
\* fetch_data and of collect() runs without suspension
CollectReturn(c, resp) ==
  /\ collects[c].pending > 0
  /\ collects' = [collects EXCEPT ![c] = [pending |-> @.pending - 1,
                                          returned |-> @.returned + 1,
                                          last |-> resp,
                                          result |-> CollectResult(resp)]]
  /\ instruments' = InstrumentsAfter(c, resp, instruments)
  /\ UNCHANGED <<data, folded, alive, credentials, derivations>>
  /\ UNCHANGED interfaceVars
  /\ UNCHANGED sessionVars /\ UNCHANGED collectVars

NextInstruments ==
  \/ \E c \in CollectorClasses : CollectStart(c)
  \/ \E c \in CollectorClasses : \E resp \in CollectResponses : CollectReturn(c, resp)

SpecInstruments == InitInstruments /\ [][NextInstruments]_vars

(***************************************************************************)
(* Helpers of the properties.                                              *)
(***************************************************************************)
\* the value a complete document publishes for a metric
Published(c, doc, m) ==
  CASE m = "lte_device" -> doc.device
    [] m = "lte_connection" -> doc.connection
    [] m = "lte_rsrp" -> doc.rsrp
    [] m = "lte_rsrq" -> doc.rsrq
    [] m = "module" -> doc.info

\* a document in which no field is missing
Complete(c, doc) == \A m \in MetricsOf(c) : Published(c, doc, m) # Missing

\* the fetch of this answer succeeds
Fetched(resp) == resp.status = "200" /\ resp.json

Failed(task) == task.pc = "done" /\ task.result \in {"fetch_failed", "parse_failed"}

AllDone(p) == passes[p].pc = "waiting" /\ \A c \in Collectors : passes[p].tasks[c].pc = "done"

\* this step is the end of a login() call that raised
LoginFailedStep ==
  /\ loginPc # "idle"
  /\ loginPc' = "idle"
  /\ \/ mainPc # "exited" /\ mainPc' = "exited"
     \/ loopPc # "dead" /\ loopPc' = "dead"

\* this step is the end of a login() call in an exception: it reaches the
\* caller (main() ends, or login_loop ends), and the session is as before
LoginRaisedStep ==
  /\ loginPc' = "idle"
  /\ cookie_jar' = cookie_jar
  /\ authenticated' = authenticated
  /\ IF mainPc = "login"
     THEN mainPc' = "exited" /\ loopPc' = "off"
     ELSE loopPc' = "dead" /\ iterLogin' = "failed"

\* the Login.json answer folds to a mapping whose login field is not "success"
LoginRejected(resp) ==
  /\ resp.status # "transport_error"
  /\ resp.body.json
  /\ "login" \in DOMAIN parse_typed_dict(resp.body.items)
  /\ parse_typed_dict(resp.body.items)["login"] # "success"

\* the cookie pair a successful login() installs for some challenge
InstalledByLogin(cookies) ==
  \E ch \in Challenges : cookies = LoginCookies(ch, Password)

\* this step issues the fetches of a collection pass
FetchIssuedStep == \E p \in PassIds : passes[p].pc # "waiting" /\ passes'[p].pc = "waiting"

\* this step is a call of login(): its GET for the login page goes out
LoginCalledStep == loginPc = "idle" /\ loginPc' = "page"

\* the callers that are inside login(): main() and login_loop
LoginsInProgress ==
  (IF mainPc = "login" THEN 1 ELSE 0) + (IF loopPc = "login" THEN 1 ELSE 0)

\* this step issues a heartbeat
HeartbeatIssuedStep == loopPc # "heartbeat" /\ loopPc' = "heartbeat"

\* the jar holds the cookie pair of a successful login()
LoggedInOnce == DOMAIN cookie_jar = {"challengev", "derivedk"}

\* no heartbeat is in flight or was answered, and no collection pass is
\* running or has published anything
NothingStarted ==
  /\ loopPc = "off"
  /\ iterHb = "none"
  /\ \A p \in PassIds : passes[p] = IdlePass
  /\ \A m \in Registry : sink[m] = Unset

\* this step is the return of a collect() of class c
CollectReturnedStep(c) == collects'[c].returned = collects[c].returned + 1

\* the fetch answered with resp failed: a transport error, a status other
\* than 200, or a body that does not decode
FetchFailed(resp) == resp.status = "transport_error" \/ resp.status # "200" \/ ~resp.json

\* the loop of _process_data reached the speed branch of entry i: every
\* entry before it had all its keys, and entry i has its media
ReachedEntry(i) ==
  /\ interfaces[i].media # Missing
  /\ \A j \in 1..(i - 1) : interfaces[j].media # Missing /\ interfaces[j].rest # Missing

\* speed is "<n>Mbps": the digits n
IsMbps(speed) == Len(speed) >= 2 /\ speed[Len(speed)] = "Mbps" /\ DigitRun(speed, 1, Len(speed) - 1)

\* speed is "DownStream:<d>kbps UpStream:<u>kbps", d ending at character k
IsDownUp(speed, k) ==
  /\ Len(speed) >= 6
  /\ speed[1] = "DownStream:"
  /\ DigitRun(speed, 2, k)
  /\ k + 3 <= Len(speed) - 1
  /\ speed[k + 1] = "kbps"
  /\ speed[k + 2] = " UpStream:"
  /\ DigitRun(speed, k + 3, Len(speed) - 1)
  /\ speed[Len(speed)] = "kbps"

\* the list data with its items in the order f
Reordered(f) == [i \in DOMAIN data |-> data[f[i]]]

\* no varid occurs in data with two different values
NoConflict ==
  \A i, j \in DOMAIN data : data[i].varid = data[j].varid => data[i].varvalue = data[j].varvalue

(***************************************************************************)
(* Properties.                                                             *)
(***************************************************************************)
\* C1: whatever subset of the collectors of a pass fails at its fetch or in
\* its parser, no collect() call raises, server_stats never ends in an error,
\* the answer of one collector leaves the tasks of its siblings as they
\* were, and server_stats answers only once every collector of the pass is
\* done, and then with the scrape response.
C1_FailuresStayInsideTheCollector ==
  /\ [](\A p \in PassIds :
          /\ passes[p].pc # "error"
          /\ \A c \in Collectors : ~passes[p].tasks[c].raised)
  /\ [][\A p \in PassIds, c \in Collectors :
          (passes[p].tasks[c].pc = "fetching" /\ passes'[p].tasks[c].pc = "done")
            => /\ \A d \in Collectors \ {c} : passes'[p].tasks[d] = passes[p].tasks[d]
               /\ \A q \in PassIds \ {p} : passes'[q] = passes[q]]_vars
  /\ [][\A p \in PassIds :
          (passes[p].pc = "waiting" /\ passes'[p].pc # "waiting")
            => AllDone(p) /\ passes'[p].pc = "served"]_vars

\* C1 witness: a scrape was answered after every collector of its pass failed
C1_Witness ==
  \E p \in PassIds : passes[p].pc = "served" /\ passes[p].failed = Cardinality(Collectors)

\* C2: a collector whose document is fetched and complete ends "ok" and the
\* registry then holds exactly the values of that document for its metrics,
\* whatever its siblings did; a collector whose fetch or parse fails ends
\* failed and leaves the metrics of the other subsystems and the results of
\* the other collectors untouched; so a pass with one raising parser ends
\* with one failed result among N, and every collector that ended "ok" has
\* all its metrics published.
C2_OneFailureLeavesTheOthersCorrect ==
  /\ [](\A p \in PassIds :
          AllDone(p) =>
            \A c \in Collectors :
               /\ passes[p].tasks[c].result \in {"ok", "fetch_failed", "parse_failed"}
               /\ passes[p].tasks[c].result = "ok" => \A m \in MetricsOf(c) : sink[m] # Unset)
  /\ [][\A p \in PassIds, c \in Collectors :
          (passes[p].tasks[c].pc = "fetching" /\ passes'[p].tasks[c].pc = "done") =>
          \A resp \in FetchResponses(c) :
          FetchReturn(p, c, resp) =>
            /\ (Fetched(resp) /\ Complete(c, resp.doc))
                 => /\ passes'[p].tasks[c].result = "ok"
                    /\ \A m \in MetricsOf(c) : sink'[m] = Published(c, resp.doc, m)
            /\ ~(Fetched(resp) /\ Complete(c, resp.doc)) => Failed(passes'[p].tasks[c])
            /\ \A m \in Metrics \ MetricsOf(c) : sink'[m] = sink[m]
            /\ \A d \in Collectors \ {c} : passes'[p].tasks[d] = passes[p].tasks[d]]_vars

\* C2 witness: a pass is over, the parser of lte raised, module ended ok and
\* its value is published
C2_Witness ==
  \E p \in PassIds :
     /\ AllDone(p)
     /\ passes[p].tasks["lte"].result = "parse_failed"
     /\ passes[p].tasks["module"].result = "ok"
     /\ sink["module"] \in Values
     /\ sink["lte_rsrq"] = Unset

\* C3 (as claimed): a collector pass that fails leaves every value its
\* subsystem had published before the pass as it was.
C3_FailedPassKeepsPublishedValues ==
  [][\A p \in PassIds, c \in Collectors :
       (passes[p].tasks[c].pc = "fetching" /\ Failed(passes'[p].tasks[c]))
         => \A m \in MetricsOf(c) : sink[m] # Unset => sink'[m] = sink[m]]_vars

\* C4 (as claimed): a collector pass that fails writes no metric: the
\* registry is the same after it, for published and unpublished metrics.
C4_FailedPassWritesNothing ==
  [][\A p \in PassIds, c \in Collectors :
       (passes[p].tasks[c].pc = "fetching" /\ Failed(passes'[p].tasks[c]))
         => sink' = sink]_vars

\* C5 (as claimed): in an iteration of login_loop whose heartbeat() returned
\* false or raised, login() is called and the loop goes on to its sleep.
C5_FalseOrFailedHeartbeatCallsLogin ==
  iterHb \in {"false", "error"} =>
    /\ iterLogin \in {"called", "ok", "failed"}
    /\ loopPc \in {"login", "sleep"}

\* C6 (as claimed): a login() that fails inside login_loop neither ends the
\* loop nor reaches main().
C6_FailedLoginIsNotFatal ==
  iterLogin = "failed" => loopPc \in {"sleep", "heartbeat"} /\ mainPc # "exited"

\* C7 (as claimed): the fetches of a pass are issued only while the session
\* is authenticated.
C7_NoFetchWhileUnauthenticated ==
  [][FetchIssuedStep => authenticated]_vars

\* C7 (amended): no fetch is issued before the first login() has succeeded:
\* whenever a pass has been started the jar holds the cookie pair of a
\* successful login.
C7_NoFetchBeforeFirstLogin ==
  \A p \in PassIds :
     passes[p].pc # "idle" => DOMAIN cookie_jar = {"challengev", "derivedk"}

\* C7 witness: a fetch is in flight while the session is unauthenticated and
\* the login() that login_loop called is in flight
C7_Witness ==
  /\ \E p \in PassIds, c \in Collectors : passes[p].tasks[c].pc = "fetching"
  /\ ~authenticated
  /\ loopPc = "login"
  /\ loginPc = "post"

\* C8: a login() call that raises, at whichever step, leaves the cookie jar
\* as it was.
C8_FailedLoginKeepsCookies ==
  [][LoginFailedStep => cookie_jar' = cookie_jar]_vars

\* C8 witness: the login() called by login_loop has failed and the jar still
\* holds the cookie pair of the earlier login
C8_Witness ==
  /\ iterLogin = "failed"
  /\ DOMAIN cookie_jar = {"challengev", "derivedk"}
  /\ cookie_jar["challengev"] \in Challenges

\* C9 (as claimed): heartbeat() returns true when the folded answer maps
\* loginstate to "1" and false for every other answer, also for one without
\* a loginstate item.
C9_HeartbeatFalseWithoutLoginstate ==
  alive # "none" =>
    alive = (IF /\ "loginstate" \in DOMAIN parse_typed_dict(data)
                /\ parse_typed_dict(data)["loginstate"] = "1"
             THEN "true" ELSE "false")

\* C10 (as claimed): every permutation of a list folds to the mapping the
\* list folds to.
C10_FoldIgnoresOrder ==
  folded # NotFolded =>
    \A f \in Permutations(DOMAIN data) : parse_typed_dict(Reordered(f)) = folded

\* C10 (amended): every permutation of a list in which no varid occurs with
\* two different values folds to the mapping the list folds to.
C10_FoldIgnoresOrderWithoutConflict ==
  (folded # NotFolded /\ NoConflict) =>
    \A f \in Permutations(DOMAIN data) : parse_typed_dict(Reordered(f)) = folded

\* C10 witness: a folded list of three items, two of them with the same
\* varid and value
C10_Witness ==
  /\ folded # NotFolded
  /\ NoConflict
  /\ Len(data) = 3
  /\ data[1] = data[3]
  /\ data[1].varid # data[2].varid

\* C11: in an iteration of login_loop whose heartbeat() returned false
\* (loginstate "0") login() is called once: it is called in the step in
\* which the heartbeat returns, no second call follows before the next
\* iteration, and the sleep is reached only after that call has returned;
\* in an iteration whose heartbeat() returned true (loginstate "1") login()
\* is not called.
C11_OneLoginAfterFalseNoneAfterTrue ==
  /\ [](iterHb = "false" => iterLogin \in {"called", "ok", "failed"})
  /\ [](iterHb = "true" => iterLogin = "none")
  /\ []((loopPc = "sleep" /\ iterHb = "false") => iterLogin = "ok")
  /\ [][(LoginCalledStep /\ mainPc # "start")
          => (iterHb' = "false" /\ iterLogin = "none" /\ iterLogin' = "called")]_vars
  /\ [][(iterLogin # "none" /\ iterLogin' = "none") => loopPc' = "heartbeat"]_vars

\* C11 witness: the heartbeat returned false, the one login() call of the
\* iteration has returned and login_loop sleeps
C11_Witness ==
  /\ loopPc = "sleep"
  /\ iterHb = "false"
  /\ iterLogin = "ok"
  /\ authenticated

\* C12: at most one login() is in progress: main() and login_loop are never
\* both inside login(), a login() in flight belongs to exactly one of them,
\* the login_loop task exists only after main()'s login() has returned, and
\* a login() is called only by main() at startup or by login_loop after its
\* heartbeat, never in a step of a collection pass.
C12_AtMostOneLoginInProgress ==
  /\ [](LoginsInProgress <= 1)
  /\ []((loginPc # "idle") <=> (LoginsInProgress = 1))
  /\ [](loopPc # "off" => mainPc \notin {"start", "login"})
  /\ [][LoginCalledStep =>
          /\ passes' = passes /\ sink' = sink
          /\ \/ mainPc = "start" /\ mainPc' = "login"
             \/ loopPc = "heartbeat" /\ loopPc' = "login"]_vars

\* C12 witness: login_loop is inside login() while every scrape slot has a
\* pass in flight
C12_Witness ==
  /\ mainPc = "running"
  /\ loopPc = "login"
  /\ loginPc = "page"
  /\ LoginsInProgress = 1
  /\ \A p \in PassIds : passes[p].pc = "waiting"

\* C13: a heartbeat is issued only while the session is authenticated, so
\* after a heartbeat that reported not-logged-in the next heartbeat goes out
\* only once a login() has succeeded; and with a device that accepts the
\* login, under the fairness of SpecLive, every state in which the session
\* is unauthenticated is followed by one in which it is authenticated.
C13_ReauthenticatedBeforeNextHeartbeat ==
  /\ [][HeartbeatIssuedStep => authenticated]_vars
  /\ [](iterHb = "false" => (authenticated <=> iterLogin = "ok"))
  /\ (~authenticated ~> authenticated)

\* C13 witness: the heartbeat after a re-login is in flight: the heartbeat
\* of the iteration before reported not-logged-in and login() succeeded
C13_Witness ==
  /\ loopPc = "sleep"
  /\ iterHb = "false"
  /\ authenticated
  /\ ENABLED LoopHeartbeat

\* C14: a server_stats call leaves asyncio.wait, and builds the scrape
\* response, only in a step before which every collector task of its pass is
\* done with a result (ok or failed); that step writes no metric; this holds
\* in the whole process, with other passes and login_loop running.
C14_PassReturnsAfterAllCollectors ==
  [][\A p \in PassIds :
       (passes[p].pc = "waiting" /\ passes'[p].pc # "waiting") =>
          /\ \A c \in Collectors :
                /\ passes[p].tasks[c].pc = "done"
                /\ passes[p].tasks[c].result \in {"ok", "fetch_failed", "parse_failed"}
          /\ passes'[p].pc = "served"
          /\ sink' = sink]_vars

\* C14 witness: a pass was answered while another pass still has a fetch in
\* flight and login_loop is inside login()
C14_Witness ==
  \E p, q \in PassIds :
     /\ passes[p].pc = "served"
     /\ passes[q].pc = "waiting"
     /\ \E c \in Collectors : passes[q].tasks[c].pc = "fetching"
     /\ loopPc = "login"

\* C15: the step in which a collector finishes its pass changes the
\* collect_time gauge of its subsystem if and only if the pass ended ok
\* (fetch_data and _process_data both returned); a pass that failed at the
\* fetch or in the parser leaves it as it was; the gauges of the other
\* subsystems are never touched by it; and a subsystem that has a
\* timestamp has all its metrics published.
C15_TimestampOnlyOnSuccess ==
  /\ [][\A p \in PassIds, c \in Collectors :
          (passes[p].tasks[c].pc = "fetching" /\ passes'[p].tasks[c].pc = "done") =>
            /\ (sink'[_collect_time(c)] # sink[_collect_time(c)])
                  <=> (passes'[p].tasks[c].result = "ok")
            /\ Failed(passes'[p].tasks[c]) => sink'[_collect_time(c)] = sink[_collect_time(c)]
            /\ \A d \in Collectors \ {c} : sink'[_collect_time(d)] = sink[_collect_time(d)]]_vars
  /\ [](\A c \in Collectors :
          sink[_collect_time(c)] # Unset => \A m \in MetricsOf(c) : sink[m] # Unset)

\* C15 witness: lte was collected twice with success, so its timestamp was
\* set and set again, and then its parser failed while module has never
\* been collected with success
C15_Witness ==
  /\ sink["collect_time_lte"] = "t2"
  /\ sink["collect_time_module"] = Unset
  /\ \E p \in PassIds : passes[p].tasks["lte"].result = "parse_failed"

\* C16 (as claimed): equal (challenge, password) inputs give equal
\* encrypted_password and equal derived key, and two inputs that differ in
\* the challenge or in the password give different encrypted_password and
\* different derived keys.
C16_BothOutputsDependOnBothInputs ==
  derivations # NotDerived =>
    LET a == credentials[1]
        b == credentials[2]
        x == derivations.out[1]
        y == derivations.out[2]
    IN  /\ a = b => (x.encrypted_password = y.encrypted_password /\ x.derived_key = y.derived_key)
        /\ a # b => (x.encrypted_password # y.encrypted_password /\ x.derived_key # y.derived_key)

\* C16 (amended): equal inputs give equal outputs; encrypted_password
\* differs exactly when the challenge or the password differs; the derived
\* key of client.py differs exactly when the password or the first 16
\* characters of the challenge differ, and the derived key of main.py
\* exactly when the password differs.
C16_DerivedKeyDependsOnChallengeHead ==
  derivations # NotDerived =>
    LET a == credentials[1]
        b == credentials[2]
        x == derivations.out[1]
        y == derivations.out[2]
    IN  /\ a = b => x = y
        /\ (x.encrypted_password # y.encrypted_password) <=> (a # b)
        /\ derivations.variant = "client" =>
              ((x.derived_key # y.derived_key)
                 <=> (a.password # b.password \/ a.challenge.head # b.challenge.head))
        /\ derivations.variant = "main" =>
              ((x.derived_key # y.derived_key) <=> (a.password # b.password))

\* C16 witness: client.py derived from two challenges that differ only
\* after their first 16 characters, with the same password: the encrypted
\* passwords differ and the derived keys are equal
C16_Witness ==
  /\ derivations.variant = "client"
  /\ credentials[1].password = credentials[2].password
  /\ credentials[1].challenge.head = credentials[2].challenge.head
  /\ credentials[1].challenge.tail # credentials[2].challenge.tail
  /\ derivations.out[1].encrypted_password # derivations.out[2].encrypted_password
  /\ derivations.out[1].derived_key = derivations.out[2].derived_key

\* C17 (as claimed): the cookies a login() installs are challengev = its
\* challenge and derivedk = the key derived from the hash of the password
\* salted with the first 16 characters of that challenge.
C17_DerivedkSaltedWithChallenge ==
  derivations # NotDerived =>
    \A i \in {1, 2} :
       /\ derivations.out[i].cookies["challengev"] = credentials[i].challenge
       /\ derivations.out[i].cookies["derivedk"] =
            Pbkdf2Hex(Sha256Hex(<<credentials[i].password.head, credentials[i].password.tail>>),
                      credentials[i].challenge.head)

\* C18: login() ends in an exception, which reaches its caller, and not in
\* success, whenever the login page is answered with a status other than
\* 200, or with a body in which no 64 character token is found, or the
\* folded Login.json answer has a login field other than "success".
C18_LoginFailsOnBadPageOrRejection ==
  /\ [][(loginPc = "page" /\ loginPc' # "page") =>
          \A resp \in PageResponses :
             (LoginPage(resp) /\ (resp.status # "200" \/ resp.match = <<>>))
               => LoginRaisedStep]_vars
  /\ [][(loginPc = "post" /\ loginPc' # "post") =>
          \A resp \in LoginResponses :
             (LoginPost(resp) /\ LoginRejected(resp)) => LoginRaisedStep]_vars

\* C18 witness: the login() of main() has raised: the process ended before
\* login_loop was created and no cookie was installed
C18_Witness ==
  /\ mainPc = "exited"
  /\ loopPc = "off"
  /\ loginPc = "idle"
  /\ cookie_jar = EmptyJar
  /\ ~authenticated

\* C19: a fetch is sent with the cookie pair the jar holds when it is
\* issued, also while a login() is in flight, and that is the pair an
\* earlier successful login() installed; no collector task raises; a step of
\* a collection pass leaves main(), login_loop and login() where they are
\* (it does not abort the login); and a login() whose request is in flight
\* can take its next step whatever the passes are doing (it is not blocked).
C19_FetchDuringLoginUsesInstalledCookies ==
  /\ [](\A p \in PassIds, c \in Collectors :
          /\ passes[p].tasks[c].pc = "fetching"
                => InstalledByLogin(passes[p].tasks[c].cookies)
          /\ ~passes[p].tasks[c].raised)
  /\ [][\A p \in PassIds, c \in Collectors :
          (passes[p].tasks[c].pc # "fetching" /\ passes'[p].tasks[c].pc = "fetching")
            => passes'[p].tasks[c].cookies = cookie_jar]_vars
  /\ [][(passes' # passes \/ sink' # sink) => UNCHANGED sessionVars]_vars
  /\ []((Running /\ loginPc = "page") => ENABLED (\E resp \in PageResponses : LoginPage(resp)))
  /\ []((Running /\ loginPc = "post") => ENABLED (\E resp \in LoginResponses : LoginPost(resp)))

\* C19 witness: a fetch is in flight with the cookies of the login before,
\* login_loop's login() has meanwhile succeeded with another challenge, and
\* the fetch can still be answered
C19_Witness ==
  /\ iterHb = "false"
  /\ iterLogin = "ok"
  /\ \E p \in PassIds, c \in Collectors :
        /\ passes[p].tasks[c].pc = "fetching"
        /\ passes[p].tasks[c].cookies # cookie_jar
        /\ \E resp \in SampleResponses(c) : ENABLED FetchReturn(p, c, resp)

\* C20: the cookie jar changes only in the step in which a login() ends
\* with success, and then to the pair of that login; the step in which a
\* heartbeat returns or raises, the start of a pass, the end of a
\* collector's fetch and parse (with success or failure) and the end of a
\* pass all leave it as it was.
C20_OnlyLoginWritesTheCookies ==
  /\ [][cookie_jar' # cookie_jar =>
          /\ loginPc = "post" /\ loginPc' = "idle"
          /\ authenticated'
          /\ cookie_jar' = LoginCookies(loginChallenge, Password)
          /\ passes' = passes /\ sink' = sink]_vars
  /\ [][(passes' # passes \/ sink' # sink) => cookie_jar' = cookie_jar]_vars
  /\ [][(loopPc = "heartbeat" /\ loopPc' # "heartbeat") => cookie_jar' = cookie_jar]_vars

\* C20 witness: heartbeat() has raised and a collector has failed, and the
\* jar still holds the cookie pair a login() installed
C20_Witness ==
  /\ iterHb = "error"
  /\ InstalledByLogin(cookie_jar)
  /\ \E p \in PassIds, c \in Collectors : Failed(passes[p].tasks[c])

\* C21: after _process_data ran on an interfaces document, every entry its
\* loop reached (all entries, when it did not raise) has its speed gauges
\* set so: media WLAN and speed "<n>Mbps": rx = tx = n * 1000; media DSL and
\* speed "DownStream:<d>kbps UpStream:<u>kbps": rx = d and tx = u; any other
\* media: rx = tx = -1.
C21_SpeedGaugesByMedia ==
  interface_gauges.processed =>
    /\ ~interface_gauges.raised => \A i \in DOMAIN interfaces : ReachedEntry(i)
    /\ \A i \in DOMAIN interfaces :
         ReachedEntry(i) =>
           LET e == interfaces[i]
               g == interface_gauges.gauges[i]
           IN  /\ (e.media = "WLAN" /\ IsMbps(e.speed)) =>
                     /\ g.set
                     /\ g.rx = int(SubSeq(e.speed, 1, Len(e.speed) - 1)) * 1000
                     /\ g.tx = g.rx
               /\ e.media = "DSL" =>
                     \A k \in 1..Len(e.speed) :
                        IsDownUp(e.speed, k) =>
                          /\ g.set
                          /\ g.rx = int(SubSeq(e.speed, 2, k))
                          /\ g.tx = int(SubSeq(e.speed, k + 3, Len(e.speed) - 1))
               /\ e.media \notin {"WLAN", "DSL"} => (g.set /\ g.rx = -1 /\ g.tx = -1)

\* C21 witness: a document with a WLAN entry of 866Mbps and a DSL entry of
\* 50000 down and 10000 up was processed without exception, and the gauges
\* are 866000 and 866000, 50000 and 10000
C21_Witness ==
  /\ interface_gauges.processed
  /\ ~interface_gauges.raised
  /\ Len(interfaces) = 2
  /\ interfaces[1].media = "WLAN"
  /\ interfaces[2].media = "DSL"
  /\ interface_gauges.gauges[1] = [set |-> TRUE, rx |-> 866000, tx |-> 866000]
  /\ interface_gauges.gauges[2] = [set |-> TRUE, rx |-> 50000, tx |-> 10000]

\* C22: a collect() step whose fetch failed (transport error, status other
\* than 200 or undecodable body) ends as a fetch failure and adds one to the
\* failure counter of the file it fetched and to no other; a step whose
\* fetch succeeded, and every other step, leaves all failure counters as
\* they are.
C22_FetchFailureCountedOncePerFile ==
  [][ /\ \A c \in CollectorClasses :
           CollectReturnedStep(c) =>
             IF FetchFailed(collects'[c].last)
             THEN /\ collects'[c].result = "fetch_failed"
                  /\ instruments'.fetch_exceptions =
                       [instruments.fetch_exceptions EXCEPT ![ENDPOINT(c)] = @ + 1]
             ELSE instruments'.fetch_exceptions = instruments.fetch_exceptions
      /\ (\A c \in CollectorClasses : ~CollectReturnedStep(c)) =>
           instruments'.fetch_exceptions = instruments.fetch_exceptions
    ]_vars

\* C22 witness: the fetch of lteinfo failed on the status, the fetch of
\* bonding_tunnel on the body and the fetch of dsl succeeded; the counters
\* of lteinfo and bonding_tunnel are 1 and all others 0
C22_Witness ==
  /\ collects["lte"].last.status = "500"
  /\ collects["bonding_tunnel"].last = [status |-> "200", json |-> FALSE, doc |-> "incomplete"]
  /\ collects["dsl"].result = "ok"
  /\ \A f \in Files :
       instruments.fetch_exceptions[f] = IF f \in {"lteinfo", "bonding_tunnel"} THEN 1 ELSE 0

\* C23: the return of a collect(), whether it succeeded, failed in its
\* fetch or failed in its parse, adds exactly one observation to the
\* duration summary of its subsystem and none to another; no other step
\* observes a duration.
C23_OneDurationPerCollect ==
  [][ /\ \A c \in CollectorClasses :
           CollectReturnedStep(c) =>
             /\ collects'[c].result \in {"ok", "fetch_failed", "parse_failed"}
             /\ instruments'.collect_duration =
                  [instruments.collect_duration EXCEPT ![METRICS_SUBSYSTEM(c)] = @ + 1]
      /\ (\A c \in CollectorClasses : ~CollectReturnedStep(c)) =>
           instruments'.collect_duration = instruments.collect_duration
    ]_vars

\* C23 witness: three collectors returned, one with success, one with a
\* failed fetch and one with a failed parse, and each subsystem has one
\* observation
C23_Witness ==
  /\ collects["dsl"].result = "ok"
  /\ collects["lte"].result = "fetch_failed"
  /\ collects["interface"].result = "parse_failed"
  /\ \A c \in {"dsl", "lte", "interface"} :
       /\ collects[c].returned = 1
       /\ instruments.collect_duration[METRICS_SUBSYSTEM(c)] = 1

\* C26: every collector records its last-success timestamp under a label
\* of its own, so a step in which a collector whose last collect() failed
\* does nothing leaves the last-success timestamp of that collector as it
\* is: the success of a different collector never advances it.
C26_TimestampNotAdvancedByOthers ==
  [][ \A c \in CollectorClasses :
        (collects[c].result \in {"fetch_failed", "parse_failed"} /\ collects'[c] = collects[c]) =>
          instruments'.collect_time[_collect_time(c)] = instruments.collect_time[_collect_time(c)]
    ]_vars

\* C25: until main()'s first login() has returned successfully the
\* login_loop task does not exist, no heartbeat is issued and no collection
\* pass runs; every heartbeat and every fetch of a pass is issued after a
\* successful login(); and when the initial login() fails the process ends
\* with none of them ever started.
C25_LoopAndScrapesAfterInitialLogin ==
  /\ [](mainPc \in {"start", "login"} => NothingStarted)
  /\ [](~LoggedInOnce => NothingStarted)
  /\ [][(HeartbeatIssuedStep \/ FetchIssuedStep)
          => (LoggedInOnce /\ mainPc \notin {"start", "login", "exited"})]_vars
  /\ [][(mainPc = "login" /\ loginPc # "idle" /\ loginPc' = "idle" /\ ~LoggedInOnce')
          => (mainPc' = "exited" /\ NothingStarted')]_vars

\* C25 witness: the initial login() failed and main() has ended: there is no
\* login_loop, no heartbeat was issued and no pass was run
C25_Witness ==
  /\ mainPc = "exited"
  /\ ~LoggedInOnce
  /\ NothingStarted

====
